---- MODULE Spec2Model ----
(***************************************************************************)
(* Model of app.py: a Streamlit script that loads Data_KP.xlsx, fits a     *)
(* fixed-effects panel regression once (memoised by st.cache_data), and on *)
(* every script run renders a sidebar with three widgets and a point       *)
(* prediction of the poverty line.                                         *)
(*                                                                         *)
(* Numbers are exact rationals <<n, d>> (d > 0, lowest terms); <<0, 0>>    *)
(* stands for a float NaN produced by arithmetic.  Rounding of binary      *)
(* floats is not modelled.  The regression solver (linearmodels.PanelOLS)  *)
(* is an external routine: its result is a nondeterministic choice among   *)
(* the coefficient vectors and per-entity effects listed below, or an      *)
(* exception.                                                              *)
(***************************************************************************)
EXTENDS Integers, Sequences, FiniteSets, TLC

VARIABLES
    raw,        \* the rows of sheet "dataset" of Data_KP.xlsx
    fem,        \* what PanelOLS...fit() does on the panel of this sheet
    cache,      \* the return value st.cache_data holds for load_and_process_data
    loadCount,  \* executions of the body of load_and_process_data
    pc,         \* position of the current script run
    rendered,   \* what the current run has sent to the page, in order
    art,        \* the script's variables bound at line 61
    session,    \* the widget values of the browser session
    out,        \* the values computed by lines 74-122 of the current run
    join        \* operands and result of the name join taken on its own

vars == <<raw, fem, cache, loadCount, pc, rendered, art, session, out, join>>

(***************************************************************************)
(* Bounds of the model.                                                    *)
(***************************************************************************)
\* largest number of rows of the sheet "dataset"
MaxRows == 2
\* largest number of executions of the body of load_and_process_data
MaxLoads == 2

(***************************************************************************)
(* Exact arithmetic.                                                       *)
(***************************************************************************)
Abs(n) == IF n < 0 THEN -n ELSE n

RECURSIVE GCD(_, _)
GCD(a, b) == IF b = 0 THEN a ELSE GCD(b, a % b)

NaNR == <<0, 0>>

IsNaNR(x) == x[2] = 0

Norm(n, d) ==
    IF d = 0 THEN NaNR
    ELSE LET g == GCD(Abs(n), Abs(d))
             s == IF d < 0 THEN -1 ELSE 1
         IN  <<(s * n) \div g, (s * d) \div g>>

R(n) == <<n, 1>>

RAdd(x, y) ==
    IF IsNaNR(x) \/ IsNaNR(y) THEN NaNR
    ELSE Norm(x[1] * y[2] + y[1] * x[2], x[2] * y[2])

RMul(x, y) ==
    IF IsNaNR(x) \/ IsNaNR(y) THEN NaNR
    ELSE Norm(x[1] * y[1], x[2] * y[2])

RDivInt(x, k) == IF IsNaNR(x) THEN NaNR ELSE Norm(x[1], x[2] * k)

RLeq(x, y) == ~IsNaNR(x) /\ ~IsNaNR(y) /\ x[1] * y[2] <= y[1] * x[2]

RECURSIVE RSum(_)
RSum(s) == IF s = <<>> THEN R(0) ELSE RAdd(Head(s), RSum(Tail(s)))

\* Series.mean(): the mean of an empty series is NaN
RMean(s) == RDivInt(RSum(s), Len(s))

RECURSIVE RMinSeq(_)
RMinSeq(s) ==
    IF s = <<>> THEN NaNR
    ELSE IF Len(s) = 1 THEN s[1]
    ELSE LET m == RMinSeq(Tail(s)) IN IF RLeq(s[1], m) THEN s[1] ELSE m

RECURSIVE RMaxSeq(_)
RMaxSeq(s) ==
    IF s = <<>> THEN NaNR
    ELSE IF Len(s) = 1 THEN s[1]
    ELSE LET m == RMaxSeq(Tail(s)) IN IF RLeq(m, s[1]) THEN s[1] ELSE m

SeqToSet(s) == {s[i] : i \in 1..Len(s)}

(***************************************************************************)
(* Cells of the spreadsheet as pandas.read_excel returns them: a number, a *)
(* text, or NaN for an empty cell.                                         *)
(***************************************************************************)
Num(x) == [kind |-> "num", num |-> x, text |-> ""]

Text(s) == [kind |-> "text", num |-> NaNR, text |-> s]

NaNCell == [kind |-> "nan", num |-> NaNR, text |-> ""]

\* the texts of the model that Python parses as a number, with their value
NumericLiterals == [s \in {"60.1"} |-> <<601, 10>>]

\* pd.to_numeric(errors='coerce') on one value: a float, NaN for what does
\* not parse
to_numeric(c) ==
    IF c.kind = "num" THEN c.num
    ELSE IF c.kind = "text" /\ c.text \in DOMAIN NumericLiterals
         THEN NumericLiterals[c.text]
         ELSE NaNR

\* the display name of an empty name cell
NaN == "<NaN>"

\* Series == value: a NaN never compares equal, not even to itself
PdEq(a, b) == a # NaN /\ b # NaN /\ a = b

\* the entity codes of the model as the sheet holds them, and astype(str)
RawKodes == {3201, 3202}

astype_str(k) == [c \in RawKodes |-> IF c = 3201 THEN "3201" ELSE "3202"][k]

\* position of a code in the lexicographic order of the strings
KodeRank(k) == IF k = "3201" THEN 1 ELSE 2

\* astype(int) on a number truncates towards zero; on NaN it raises
astype_int_fails(c) == c.kind # "num"

astype_int(c) == c.num[1] \div c.num[2]

selected_columns ==
    <<"garis_kemiskinan", "IPM", "TPAK", "upah_minimum", "TPT",
      "jumlah_penduduk_miskin">>

RawRow(k, n, t, g, ipm, tpak, upah, tpt, jpm) ==
    [kode_kabupaten_kota |-> k, nama_kabupaten_kota |-> n, tahun |-> t,
     garis_kemiskinan |-> g, IPM |-> ipm, TPAK |-> tpak, upah_minimum |-> upah,
     TPT |-> tpt, jumlah_penduduk_miskin |-> jpm]

(***************************************************************************)
(* load_and_process_data, lines 18-32: type conversion, numeric coercion   *)
(* and dropna.  The MultiIndex of line 25 keeps the two key columns in the *)
(* row; set_index accepts duplicate keys.                                  *)
(***************************************************************************)
ReadFails(table) == \E i \in 1..Len(table) : astype_int_fails(table[i].tahun)

ConvertRow(r) ==
    [kode_kabupaten_kota |-> astype_str(r.kode_kabupaten_kota),
     nama_kabupaten_kota |-> r.nama_kabupaten_kota,
     tahun |-> astype_int(r.tahun),
     garis_kemiskinan |-> to_numeric(r.garis_kemiskinan),
     IPM |-> to_numeric(r.IPM),
     TPAK |-> to_numeric(r.TPAK),
     upah_minimum |-> to_numeric(r.upah_minimum),
     TPT |-> to_numeric(r.TPT),
     jumlah_penduduk_miskin |-> to_numeric(r.jumlah_penduduk_miskin)]

\* dropna(how='all') in place of the default how='any'
Complete_any(r) ==
    \E i \in 1..Len(selected_columns) : ~IsNaNR(r[selected_columns[i]])

Complete(r) ==
    \A i \in 1..Len(selected_columns) : ~IsNaNR(r[selected_columns[i]])

dropna(table) == SelectSeq(table, Complete)

Normalize(table) == dropna([i \in 1..Len(table) |-> ConvertRow(table[i])])

Column(df, c) == [i \in 1..Len(df) |-> df[i][c]]

(***************************************************************************)
(* PanelOLS.from_formula(...).fit(), lines 37-45.  The solver is external: *)
(* it raises on an empty panel and may raise on any other (rank            *)
(* deficiency, absorbed covariates); otherwise it returns one coefficient  *)
(* per covariate of the formula and one estimated effect per row, equal    *)
(* for the rows of one entity (EntityEffects are time-invariant).          *)
(***************************************************************************)
Coefs(ipm, tpak, upah, tpt, jpm) ==
    [IPM |-> ipm, TPAK |-> tpak, upah_minimum |-> upah, TPT |-> tpt,
     jumlah_penduduk_miskin |-> jpm]

NoCoefs == Coefs(NaNR, NaNR, NaNR, NaNR, NaNR)

CoefChoices ==
    {Coefs(R(10), R(3), <<1, 1000>>, R(-7), R(2)),
     Coefs(R(-4), R(5), <<1, 500>>, R(9), R(-1))}

EffectValues == {R(100), R(200)}

Entities(df) == {df[i].kode_kabupaten_kota : i \in 1..Len(df)}

FitMustFail(df) == df = <<>>

FitResults(df) ==
    [ok : {TRUE}, coefficients : CoefChoices,
     effects : [Entities(df) -> EffectValues]]

FitError == [ok |-> FALSE, coefficients |-> NoCoefs, effects |-> <<>>]

\* the solver is deterministic: one outcome per sheet
FitOutcomes(df) ==
    IF FitMustFail(df) THEN {FitError} ELSE FitResults(df) \cup {FitError}

\* fem_model.estimated_effects.reset_index() with the columns of line 45
estimated_effects(df, fit) ==
    [i \in 1..Len(df) |->
        [kode_kabupaten_kota |-> df[i].kode_kabupaten_kota,
         tahun |-> df[i].tahun,
         intersep |-> fit.effects[df[i].kode_kabupaten_kota]]]

(***************************************************************************)
(* Lines 48-54: one mean intercept per entity, joined with the names.      *)
(***************************************************************************)
RECURSIVE SortKodes(_)
SortKodes(S) ==
    IF S = {} THEN <<>>
    ELSE LET m == CHOOSE k \in S : \A o \in S : KodeRank(k) <= KodeRank(o)
         IN  <<m>> \o SortKodes(S \ {m})

EffectsOf(intercepts, k) ==
    LET rows == SelectSeq(intercepts, LAMBDA r : r.kode_kabupaten_kota = k)
    IN  [i \in 1..Len(rows) |-> rows[i].intersep]

\* intercepts.groupby('kode_kabupaten_kota')['intersep'].mean().reset_index()
groupby_mean(intercepts) ==
    LET keys == SortKodes({intercepts[i].kode_kabupaten_kota :
                              i \in 1..Len(intercepts)})
    IN  [i \in 1..Len(keys) |->
            [kode_kabupaten_kota |-> keys[i],
             intersep |-> RMean(EffectsOf(intercepts, keys[i]))]]

\* DataFrame.drop_duplicates(): the first occurrence of each row is kept
RECURSIVE drop_duplicates(_)
drop_duplicates(s) ==
    IF s = <<>> THEN <<>>
    ELSE LET front == drop_duplicates(SubSeq(s, 1, Len(s) - 1))
             last == s[Len(s)]
         IN  IF last \in SeqToSet(front) THEN front ELSE Append(front, last)

\* lines 51-52: the (code, name) pairs of a second read of the sheet
nama_kabupaten(table) ==
    LET pairs == drop_duplicates(
                    [i \in 1..Len(table) |->
                        [kode_kabupaten_kota |-> table[i].kode_kabupaten_kota,
                         nama_kabupaten_kota |-> table[i].nama_kabupaten_kota]])
    IN  [i \in 1..Len(pairs) |->
            [kode_kabupaten_kota |-> astype_str(pairs[i].kode_kabupaten_kota),
             nama_kabupaten_kota |-> pairs[i].nama_kabupaten_kota]]

\* pd.merge(left, right, on='kode_kabupaten_kota'): an inner join in the
\* order of the left rows, each with its matches in the order of the right
RECURSIVE merge(_, _)
merge(left, right) ==
    IF left = <<>> THEN <<>>
    ELSE LET l == Head(left)
             hits == SelectSeq(right,
                        LAMBDA r : r.kode_kabupaten_kota = l.kode_kabupaten_kota)
         IN  [j \in 1..Len(hits) |->
                [kode_kabupaten_kota |-> l.kode_kabupaten_kota,
                 intersep |-> l.intersep,
                 nama_kabupaten_kota |-> hits[j].nama_kabupaten_kota]]
             \o merge(Tail(left), right)

\* the tuple returned at line 57 (fem_model itself is only displayed)
Artifacts(table, fit) ==
    LET df == Normalize(table)
        intercepts == estimated_effects(df, fit)
    IN  [valid |-> TRUE,
         df |-> df,
         coefficients |-> fit.coefficients,
         intercepts |-> intercepts,
         unique_intercepts |->
            merge(groupby_mean(intercepts), nama_kabupaten(table))]

NoArtifacts ==
    [valid |-> FALSE, df |-> <<>>, coefficients |-> NoCoefs,
     intercepts |-> <<>>, unique_intercepts |-> <<>>]

(***************************************************************************)
(* The sidebar widgets, lines 72-107.                                      *)
(***************************************************************************)
\* the dropdown filled from the code column
list_kabupaten_codes(a) ==
    [i \in 1..Len(a.unique_intercepts) |->
        a.unique_intercepts[i].kode_kabupaten_kota]

list_kabupaten(a) ==
    [i \in 1..Len(a.unique_intercepts) |->
        a.unique_intercepts[i].nama_kabupaten_kota]

\* step=0.1 of the IPM slider
SliderStep == <<1, 10>>

\* a slider that offers one step beyond max_value
SliderValues_overshoot(lo, hi) ==
    LET span == RAdd(hi, RMul(R(-1), lo))
        steps == (span[1] * SliderStep[2]) \div (span[2] * SliderStep[1])
    IN  IF IsNaNR(span) THEN {}
        ELSE {RAdd(lo, RMul(R(k), SliderStep)) : k \in 0..(steps + 1)}

\* the values a slider offers: min_value + k * step, up to max_value
SliderValues(lo, hi) ==
    LET span == RAdd(hi, RMul(R(-1), lo))
        steps == (span[1] * SliderStep[2]) \div (span[2] * SliderStep[1])
    IN  IF IsNaNR(span) THEN {}
        ELSE {RAdd(lo, RMul(R(k), SliderStep)) : k \in 0..steps}

ipm_min(a) == RMinSeq(Column(a.df, "IPM"))

ipm_max(a) == RMaxSeq(Column(a.df, "IPM"))

ipm_mean(a) == RMean(Column(a.df, "IPM"))

\* range_dict, in insertion order
range_dict ==
    << [label |-> "1jt - 1.5jt", value |-> 1250000],
       [label |-> "1.5jt - 2jt", value |-> 1750000],
       [label |-> "2jt - 2.5jt", value |-> 2250000],
       [label |-> "2.5jt - 3jt", value |-> 2750000],
       [label |-> "3jt - 3.5jt", value |-> 3250000],
       [label |-> "3.5jt - 4jt", value |-> 3750000],
       [label |-> "4jt - 4.5jt", value |-> 4250000],
       [label |-> "4.5jt - 5jt", value |-> 4750000],
       [label |-> "5jt - 5.5jt", value |-> 5250000],
       [label |-> "5.5jt - 6jt", value |-> 5750000] >>

\* range_dict[selected_range]; the labels are pairwise different
range_lookup(label) ==
    range_dict[CHOOSE i \in 1..Len(range_dict) :
                  range_dict[i].label = label].value

\* widget values of a session before its first run: selectbox and
\* select_slider start at their first option, the slider at value=mean
NoSession == [set |-> FALSE, kab |-> 1, ipm |-> NaNR, range |-> 1]

DefaultSession(a) == [set |-> TRUE, kab |-> 1, ipm |-> ipm_mean(a), range |-> 1]

(***************************************************************************)
(* The prediction, lines 113-122.                                          *)
(***************************************************************************)
selected_intercept_row(a, nama) ==
    SelectSeq(a.unique_intercepts,
              LAMBDA r : PdEq(r.nama_kabupaten_kota, nama))

\* a fallback of zero in place of the mean
intersep_zero_fallback(a, nama) ==
    LET row == selected_intercept_row(a, nama)
    IN  IF row # <<>> THEN row[1].intersep ELSE R(0)

intersep(a, nama) ==
    LET row == selected_intercept_row(a, nama)
    IN  IF row # <<>> THEN row[1].intersep
        ELSE RMean([i \in 1..Len(a.unique_intercepts) |->
                        a.unique_intercepts[i].intersep])

\* a prediction that also applies the TPAK coefficient
prediksi_with_tpak(coefficients, input_ipm, input_upah, c) ==
    RAdd(RAdd(RAdd(RMul(coefficients.IPM, input_ipm),
                   RMul(coefficients.upah_minimum, R(input_upah))),
              RMul(coefficients.TPAK, input_ipm)),
         c)

prediksi(coefficients, input_ipm, input_upah, c) ==
    RAdd(RAdd(RMul(coefficients.IPM, input_ipm),
              RMul(coefficients.upah_minimum, R(input_upah))),
         c)

NoOut ==
    [made |-> FALSE, selected_kabupaten_nama |-> NaN, input_ipm |-> NaNR,
     input_upah |-> 0, intersep |-> NaNR, prediksi |-> NaNR]

\* what one run of lines 63-169 shows, in order
Dashboard ==
    <<"title", "selectbox", "slider", "select_slider", "caption", "metric",
      "formula", "details">>

(***************************************************************************)
(* The state machine: script runs of one server process.                   *)
(***************************************************************************)
\* the sheets of the model: every row complete, the measurements of a row
\* given by its year
Names == {"Bogor", "Depok", NaN}

Years == {2020, 2021}

YearRow(k, n, t) ==
    IF t = 2020
    THEN RawRow(k, n, Num(R(t)), Num(R(400000)), Num(R(60)), Num(R(65)),
                Num(R(1500000)), Num(R(8)), Num(R(90)))
    ELSE RawRow(k, n, Num(R(t)), Num(R(420000)), Num(<<601, 10>>), Num(R(66)),
                Num(R(2250000)), Num(R(7)), Num(R(85)))

PanelRows == {YearRow(k, n, t) : k \in RawKodes, n \in Names, t \in Years}

\* the sheet lists the panel entity by entity, each entity year by year;
\* a row without a year sorts first
KeyLeq(r, q) ==
    LET yr(x) == IF x.tahun.kind = "num" THEN astype_int(x.tahun) ELSE 0
    IN  \/ r.kode_kabupaten_kota < q.kode_kabupaten_kota
        \/ /\ r.kode_kabupaten_kota = q.kode_kabupaten_kota
           /\ yr(r) <= yr(q)

TablesOver(rows) ==
    {t \in UNION {[1..n -> rows] : n \in 0..MaxRows} :
        \A i \in 1..(Len(t) - 1) : KeyLeq(t[i], t[i + 1])}

NoJoin == [left |-> <<>>, right |-> <<>>, result |-> <<>>, done |-> FALSE]

TypeOK ==
    /\ pc \in {"idle", "configured", "loaded", "done", "failed"}
    /\ loadCount \in 0..MaxLoads
    /\ cache.valid \in BOOLEAN
    /\ art.valid \in BOOLEAN
    /\ out.made \in BOOLEAN
    /\ fem.ok \in BOOLEAN

InitWith(tables) ==
    /\ raw \in tables
    /\ fem \in IF ReadFails(raw) THEN {FitError} ELSE FitOutcomes(Normalize(raw))
    /\ cache = NoArtifacts
    /\ loadCount = 0
    /\ pc = "idle"
    /\ rendered = <<>>
    /\ art = NoArtifacts
    /\ session = NoSession
    /\ out = NoOut
    /\ join = NoJoin

Init == InitWith(TablesOver(PanelRows))

\* lines 7-11: every run starts with st.set_page_config
BeginRun ==
    /\ pc' = "configured"
    /\ rendered' = <<"page_config">>
    /\ art' = NoArtifacts
    /\ out' = NoOut
    /\ UNCHANGED <<raw, fem, cache, loadCount, join>>

\* the first run of the script
StartRun ==
    /\ pc = "idle"
    /\ BeginRun
    /\ UNCHANGED session

\* the user reruns the script without touching a widget
Rerun ==
    /\ pc \in {"done", "failed"}
    /\ pc = "failed" => loadCount < MaxLoads
    /\ BeginRun
    /\ UNCHANGED session

\* the user picks another entry of the selectbox; the script reruns
ChooseKabupaten ==
    /\ pc = "done"
    /\ \E i \in 1..Len(list_kabupaten(art)) :
          /\ i # session.kab
          /\ session' = [session EXCEPT !.kab = i]
    /\ BeginRun

\* the user moves the IPM slider; the script reruns
MoveSlider ==
    /\ pc = "done"
    /\ \E v \in SliderValues(ipm_min(art), ipm_max(art)) :
          /\ v # session.ipm
          /\ session' = [session EXCEPT !.ipm = v]
    /\ BeginRun

\* the user moves the wage select_slider; the script reruns
ChooseRange ==
    /\ pc = "done"
    /\ \E i \in 1..Len(range_dict) :
          /\ i # session.range
          /\ session' = [session EXCEPT !.range = i]
    /\ BeginRun

\* a function without the decorator
CacheHit_never == FALSE

\* @st.cache_data: a stored return value is handed out without running the
\* body; an exception is not stored
CacheHit == cache.valid

\* a call whose exception is swallowed
AfterLoad_or_failed == pc \in {"loaded", "failed"}

\* the statements after line 61 run only when the call has returned
AfterLoad == pc = "loaded"

\* line 61, served from the cache
LoadCached ==
    /\ pc = "configured"
    /\ CacheHit
    /\ art' = cache
    /\ pc' = "loaded"
    /\ UNCHANGED <<raw, fem, cache, loadCount, rendered, session, out, join>>

\* line 61, the body runs and returns
LoadExecute ==
    /\ pc = "configured"
    /\ ~CacheHit
    /\ loadCount < MaxLoads
    /\ ~ReadFails(raw)
    /\ fem.ok
    /\ cache' = Artifacts(raw, fem)
    /\ art' = Artifacts(raw, fem)
    /\ loadCount' = loadCount + 1
    /\ pc' = "loaded"
    /\ UNCHANGED <<raw, fem, rendered, session, out, join>>

\* line 61, the body raises (astype(int) on an empty year, or the solver):
\* the run ends with the exception on the page
LoadFails ==
    /\ pc = "configured"
    /\ ~CacheHit
    /\ loadCount < MaxLoads
    /\ ReadFails(raw) \/ ~fem.ok
    /\ loadCount' = loadCount + 1
    /\ pc' = "failed"
    /\ rendered' = Append(rendered, "exception")
    /\ UNCHANGED <<raw, fem, cache, art, session, out, join>>

\* lines 63-169: the widgets return the session's values and the
\* prediction is computed and shown
RenderDashboard ==
    /\ AfterLoad
    /\ LET s == IF session.set THEN session ELSE DefaultSession(art)
           names == list_kabupaten(art)
           nama == IF names = <<>> THEN NaN ELSE names[s.kab]
           upah == range_lookup(range_dict[s.range].label)
           c == intersep(art, nama)
       IN  /\ session' = s
           /\ out' = [made |-> TRUE,
                      selected_kabupaten_nama |-> nama,
                      input_ipm |-> s.ipm,
                      input_upah |-> upah,
                      intersep |-> c,
                      prediksi |-> prediksi(art.coefficients, s.ipm, upah, c)]
    /\ rendered' = rendered \o Dashboard
    /\ pc' = "done"
    /\ UNCHANGED <<raw, fem, cache, loadCount, art, join>>

Next ==
    \/ StartRun
    \/ Rerun
    \/ ChooseKabupaten
    \/ MoveSlider
    \/ ChooseRange
    \/ LoadCached
    \/ LoadExecute
    \/ LoadFails
    \/ RenderDashboard

Spec == Init /\ [][Next]_vars

(***************************************************************************)
(* The same runs over sheets with defective cells: one entity, and rows    *)
(* with a second name, an empty or textual measurement, a number written   *)
(* as text, an empty year and a fractional year.                           *)
(***************************************************************************)
Defect(c, v) == [YearRow(3201, "Bogor", 2020) EXCEPT ![c] = v]

DataRows ==
    {YearRow(3201, "Bogor", 2020), YearRow(3201, "Bogor", 2021),
     YearRow(3201, "Depok", 2021)}
    \cup {Defect(selected_columns[i], NaNCell) : i \in 1..Len(selected_columns)}
    \cup {Defect("IPM", Text("abc")), Defect("upah_minimum", Text("abc")),
          Defect("IPM", Text("60.1"))}
    \cup {Defect("tahun", NaNCell), Defect("tahun", Num(<<4041, 2>>))}

InitData == InitWith(TablesOver(DataRows))

SpecData == InitData /\ [][Next]_vars

(***************************************************************************)
(* Line 54 on its own: the join applied to any table of mean intercepts    *)
(* and any table of (code, name) pairs.                                    *)
(***************************************************************************)
KodeStrings == {astype_str(k) : k \in RawKodes}

MeanTables ==
    UNION {{[i \in 1..Len(SortKodes(S)) |->
                [kode_kabupaten_kota |-> SortKodes(S)[i],
                 intersep |-> e[SortKodes(S)[i]]]] :
              e \in [S -> EffectValues]} : S \in SUBSET KodeStrings}

NamePairs ==
    [kode_kabupaten_kota : KodeStrings, nama_kabupaten_kota : Names]

NameTables ==
    {t \in UNION {[1..n -> NamePairs] : n \in 0..MaxRows} :
        \A i, j \in 1..Len(t) : i # j => t[i] # t[j]}

InitJoin ==
    /\ raw = <<>>
    /\ fem = FitError
    /\ cache = NoArtifacts
    /\ loadCount = 0
    /\ pc = "idle"
    /\ rendered = <<>>
    /\ art = NoArtifacts
    /\ session = NoSession
    /\ out = NoOut
    /\ \E l \in MeanTables, r \in NameTables :
          join = [left |-> l, right |-> r, result |-> <<>>, done |-> FALSE]

JoinNames ==
    /\ ~join.done
    /\ join' = [join EXCEPT !.result = merge(join.left, join.right),
                            !.done = TRUE]
    /\ UNCHANGED <<raw, fem, cache, loadCount, pc, rendered, art, session, out>>

SpecJoin == InitJoin /\ [][JoinNames]_vars

(***************************************************************************)
(* Properties.                                                             *)
(***************************************************************************)
NamesOf(a) ==
    {a.unique_intercepts[i].nama_kabupaten_kota :
        i \in 1..Len(a.unique_intercepts)}

\* the rows of the intercept table whose name is the text nama
Hits(a, nama) ==
    {i \in 1..Len(a.unique_intercepts) :
        nama # NaN /\ a.unique_intercepts[i].nama_kabupaten_kota = nama}

FirstHit(a, nama) ==
    CHOOSE i \in Hits(a, nama) : \A j \in Hits(a, nama) : i <= j

\* x is the mean of the intercepts of the table
IsMeanIntercept(a, x) ==
    /\ a.unique_intercepts # <<>>
    /\ RMul(x, R(Len(a.unique_intercepts)))
         = RSum([i \in 1..Len(a.unique_intercepts) |->
                    a.unique_intercepts[i].intersep])

\* C1: the prediction is coefficient[IPM] * IPM input + coefficient[upah_minimum]
\* * wage input + the intercept resolved for the selection; the coefficients of
\* TPAK, TPT and jumlah_penduduk_miskin do not enter it.
C1_PredictionFormula ==
    out.made =>
        LET ipmTerm == RMul(art.coefficients.IPM, out.input_ipm)
            upahTerm == RMul(art.coefficients.upah_minimum, R(out.input_upah))
        IN  /\ out.prediksi = RAdd(out.intersep, RAdd(upahTerm, ipmTerm))
            /\ \/ IsMeanIntercept(art, out.intersep)
               \/ \E i \in 1..Len(art.unique_intercepts) :
                     out.intersep = art.unique_intercepts[i].intersep

C1_Witness ==
    /\ out.made
    /\ art.coefficients.TPAK # R(0)
    /\ out.input_ipm = <<601, 10>>
    /\ out.input_upah = 2250000
    /\ out.intersep = R(200)
    /\ out.prediksi = R(3051)

IsNumericCell(c) ==
    \/ c.kind = "num"
    \/ c.kind = "text" /\ c.text \in DOMAIN NumericLiterals

IsNumericRow(r) ==
    \A i \in 1..Len(selected_columns) : IsNumericCell(r[selected_columns[i]])

\* C3: the dataset holds exactly the rows of the sheet whose six measurements
\* are all numbers, in order and with their own values; no row with an empty
\* or non-numeric measurement is kept and no value is a substitute.
C3_CompleteRows ==
    art.valid =>
        LET kept == SelectSeq(raw, IsNumericRow)
        IN  /\ Len(art.df) = Len(kept)
            /\ \A j \in 1..Len(art.df) : \A i \in 1..Len(selected_columns) :
                  LET c == selected_columns[i]
                  IN  /\ ~IsNaNR(art.df[j][c])
                      /\ kept[j][c].kind = "num" => art.df[j][c] = kept[j][c].num
                      /\ kept[j][c].kind = "text" =>
                            art.df[j][c] = NumericLiterals[kept[j][c].text]

C3_Witness ==
    /\ art.valid
    /\ Len(raw) = 2
    /\ Len(art.df) = 1
    /\ raw[1].IPM = Text("abc")

\* C4: the intercept table has exactly one row per entity of the dataset, also
\* when the sheet pairs a code with more than one name.
C4_OneEntryPerEntity ==
    cache.valid =>
        /\ {cache.unique_intercepts[i].kode_kabupaten_kota :
               i \in 1..Len(cache.unique_intercepts)} = Entities(cache.df)
        /\ Len(cache.unique_intercepts) = Cardinality(Entities(cache.df))

C6_ExecutesExactlyOnce ==
    /\ loadCount <= 1
    /\ pc \in {"loaded", "done", "failed"} => loadCount = 1

\* C6: once the body has returned, it is never run again, the cached return
\* value never changes, and the artifacts of every run are the cached ones.
C6_CachedOnce ==
    [][/\ cache.valid => (cache' = cache /\ loadCount' = loadCount)
       /\ art'.valid => (cache'.valid /\ art' = cache')]_vars

C6_Witness ==
    /\ pc = "done"
    /\ loadCount = 1
    /\ session.range = 3
    /\ session.kab = 2
    /\ art = cache

ShowsDashboard ==
    \E i \in 1..Len(rendered) : rendered[i] \in SeqToSet(Dashboard)

\* C7 as stated: everything the run shows comes after a successful load.
C7_EverythingAfterLoad == rendered # <<>> => art.valid

\* C7: a run whose load fails shows nothing of the dashboard, only the page
\* configuration and the exception; dashboard content appears only in a run
\* whose load has returned.
C7_NoDashboardWithoutLoad ==
    /\ pc = "failed" => rendered = <<"page_config", "exception">>
    /\ ShowsDashboard => (art.valid /\ art = cache /\ pc = "done")

C7_Witness ==
    /\ pc = "failed"
    /\ loadCount = 2
    /\ raw # <<>>
    /\ ~ShowsDashboard

InObservedRange(c, x) ==
    \E i, j \in 1..Len(art.df) :
        RLeq(art.df[i][c], x) /\ RLeq(x, art.df[j][c])

\* C8 as stated: both inputs lie in the observed range of their covariate.
C8_BothWithinObserved ==
    out.made =>
        /\ InObservedRange("IPM", out.input_ipm)
        /\ InObservedRange("upah_minimum", R(out.input_upah))

\* C8: the IPM input lies in the observed range of IPM; the wage input is one
\* of the ten values of range_dict, whatever the dataset holds.
C8_InputsAsOffered ==
    out.made =>
        /\ InObservedRange("IPM", out.input_ipm)
        /\ \E i \in 1..Len(range_dict) : out.input_upah = range_dict[i].value

C8_Witness ==
    /\ out.made
    /\ out.input_ipm = <<1201, 20>>
    /\ out.input_upah = 1250000
    /\ ~InObservedRange("upah_minimum", R(out.input_upah))

\* C9: no (code, year) key enters the mean of its entity more than once.
C9_NoDoubleCount ==
    cache.valid =>
        \A i, j \in 1..Len(cache.intercepts) :
            (/\ cache.intercepts[i].kode_kabupaten_kota
                  = cache.intercepts[j].kode_kabupaten_kota
             /\ cache.intercepts[i].tahun = cache.intercepts[j].tahun) => i = j

\* C10 as stated: with a non-empty intercept table the lookup by the selected
\* name always finds a row.
C10_FallbackNeverTaken ==
    (out.made /\ art.unique_intercepts # <<>>) =>
        \E i \in 1..Len(art.unique_intercepts) :
            PdEq(art.unique_intercepts[i].nama_kabupaten_kota,
                 out.selected_kabupaten_nama)

\* C10: with a non-empty intercept table the selection is an entry of the name
\* column; a text finds a row and gets the intercept of the first row of that
\* name, a missing name finds none and gets the mean of the intercepts.
C10_SelectionResolves ==
    (out.made /\ art.unique_intercepts # <<>>) =>
        /\ out.selected_kabupaten_nama \in NamesOf(art)
        /\ out.selected_kabupaten_nama # NaN =>
              out.intersep =
                art.unique_intercepts[
                    FirstHit(art, out.selected_kabupaten_nama)].intersep
        /\ out.selected_kabupaten_nama = NaN =>
              IsMeanIntercept(art, out.intersep)

C10_Witness ==
    /\ out.made
    /\ Len(art.unique_intercepts) = 2
    /\ session.kab = 2
    /\ out.selected_kabupaten_nama = "Bogor"
    /\ art.unique_intercepts[1].nama_kabupaten_kota = "Bogor"
    /\ art.unique_intercepts[1].intersep # art.unique_intercepts[2].intersep
    /\ out.intersep = art.unique_intercepts[1].intersep

====
